---- MODULE Spec2Model ----
(***************************************************************************)
(* Zsh Alias Manager (zam): the alias line codec (parseAliases and the     *)
(* serializer inside writeAliases), the metadata store, and the command    *)
(* handlers of src/index.ts, as a state machine over the files the tool    *)
(* reads and writes.  Text is a sequence of one-character strings, so the  *)
(* codec is modelled character by character.                               *)
(***************************************************************************)
EXTENDS Integers, Sequences, FiniteSets, TLC

VARIABLES
  aliasesFile,   \* ~/.zsh_aliases_managed : [exists, content]
  metadataFile,  \* ~/.zam/metadata.json   : [exists, data]
  zshrcFile,     \* ~/.zshrc               : [exists, content]
  backups,       \* ~/.zam/backups/*.bak   : sequence of file contents
  out,           \* console lines printed by the last invocation
  mem,           \* an in-memory AliasMap under construction (codec runs)
  exitCode,      \* exit status of the last invocation
  tmpFiles,      \* number of zam-edit-*.sh files lying in os.tmpdir()
  session,       \* position of the interactive process: "off", "menu", "ended"
  writers        \* concurrent zam processes: [pc, aliases, savedAt] of each

vars ==
  <<aliasesFile, metadataFile, zshrcFile, backups, out, mem, exitCode, tmpFiles,
    session, writers>>

----------------------------------------------------------------------------
(* Fixed texts of the program *)

ALIASES_FILE ==
  <<"/", "h", "o", "m", "e", "/", "u", "/", ".", "z", "s", "h", "_", "a", "l", "i", "a", "s",
    "e", "s", "_", "m", "a", "n", "a", "g", "e", "d">>

ManagedHeader ==
  <<"#", " ", "M", "a", "n", "a", "g", "e", "d", " ", "b", "y", " ", "Z", "s", "h", " ", "A",
    "l", "i", "a", "s", " ", "M", "a", "n", "a", "g", "e", "r", " ", "(", "z", "a", "m", ")">>

SHELL_WRAPPER_MARKER ==
  <<"#", " ", "Z", "s", "h", " ", "A", "l", "i", "a", "s", " ", "M", "a", "n", "a", "g", "e",
    "r", " ", "w", "r", "a", "p", "p", "e", "r">>

SHELL_WRAPPER ==
  <<"\n", "#", " ", "Z", "s", "h", " ", "A", "l", "i", "a", "s", " ", "M", "a", "n", "a", "g",
    "e", "r", " ", "w", "r", "a", "p", "p", "e", "r", " ", "-", " ", "a", "u", "t", "o", "-",
    "s", "o", "u", "r", "c", "e", "s", " ", "a", "l", "i", "a", "s", "e", "s", " ", "a", "f",
    "t", "e", "r", " ", "c", "h", "a", "n", "g", "e", "s", "\n", "z", "a", "m", "(", ")", " ",
    "{", "\n", " ", " ", "c", "o", "m", "m", "a", "n", "d", " ", "z", "a", "m", " ", "\"", "$",
    "@", "\"", "\n", " ", " ", "l", "o", "c", "a", "l", " ", "e", "x", "i", "t", "_", "c", "o",
    "d", "e", "=", "$", "?", "\n", " ", " ", "i", "f", " ", "[", "[", " ", "$", "e", "x", "i",
    "t", "_", "c", "o", "d", "e", " ", "-", "e", "q", " ", "0", " ", "&", "&", " ", "-", "f",
    " ", "~", "/", ".", "z", "s", "h", "_", "a", "l", "i", "a", "s", "e", "s", "_", "m", "a",
    "n", "a", "g", "e", "d", " ", "]", "]", ";", " ", "t", "h", "e", "n", "\n", " ", " ", " ",
    " ", "c", "a", "s", "e", " ", "\"", "$", "1", "\"", " ", "i", "n", "\n", " ", " ", " ",
    " ", " ", " ", "a", "d", "d", "|", "r", "e", "m", "o", "v", "e", "|", "r", "e", "n", "a",
    "m", "e", "|", "r", "e", "s", "t", "o", "r", "e", "|", "i", "m", "p", "o", "r", "t", "|",
    "\"", "\"", ")", "\n", " ", " ", " ", " ", " ", " ", " ", " ", "s", "o", "u", "r", "c",
    "e", " ", "~", "/", ".", "z", "s", "h", "_", "a", "l", "i", "a", "s", "e", "s", "_", "m",
    "a", "n", "a", "g", "e", "d", "\n", " ", " ", " ", " ", " ", " ", " ", " ", ";", ";", "\n",
    " ", " ", " ", " ", "e", "s", "a", "c", "\n", " ", " ", "f", "i", "\n", " ", " ", "r", "e",
    "t", "u", "r", "n", " ", "$", "e", "x", "i", "t", "_", "c", "o", "d", "e", "\n", "}", "\n">>

SourceLine ==
  <<"s", "o", "u", "r", "c", "e", " ", "/", "h", "o", "m", "e", "/", "u", "/", ".", "z", "s",
    "h", "_", "a", "l", "i", "a", "s", "e", "s", "_", "m", "a", "n", "a", "g", "e", "d">>

SourceLineAlt ==
  <<"s", "o", "u", "r", "c", "e", " ", "\"", "/", "h", "o", "m", "e", "/", "u", "/", ".", "z",
    "s", "h", "_", "a", "l", "i", "a", "s", "e", "s", "_", "m", "a", "n", "a", "g", "e", "d",
    "\"">>

SourceInstruction ==
  <<"\n", "#", " ", "A", "d", "d", "e", "d", " ", "b", "y", " ", "Z", "s", "h", " ", "A", "l",
    "i", "a", "s", " ", "M", "a", "n", "a", "g", "e", "r", " ", "(", "z", "a", "m", ")", "\n",
    "[", " ", "-", "f", " ", "\"", "/", "h", "o", "m", "e", "/", "u", "/", ".", "z", "s", "h",
    "_", "a", "l", "i", "a", "s", "e", "s", "_", "m", "a", "n", "a", "g", "e", "d", "\"", " ",
    "]", " ", "&", "&", " ", "s", "o", "u", "r", "c", "e", " ", "\"", "/", "h", "o", "m", "e",
    "/", "u", "/", ".", "z", "s", "h", "_", "a", "l", "i", "a", "s", "e", "s", "_", "m", "a",
    "n", "a", "g", "e", "d", "\"", "\n">>

MovedPrefix ==
  <<"#", " ", "[", "M", "o", "v", "e", "d", " ", "t", "o", " ", "z", "a", "m", "]", " ">>

AliasKeyword ==
  <<"a", "l", "i", "a", "s">>

AliasPrefix ==
  <<"a", "l", "i", "a", "s", " ">>

EscapedQuote == <<"'", "\\", "'", "'">>

----------------------------------------------------------------------------
(* JavaScript string primitives over character sequences *)

\* Printable ASCII in code-unit order, without the grave accent (96):
\* AsciiLow[i] has code unit 31 + i, AsciiHigh[i] has code unit 96 + i.
AsciiLow ==
  <<" ", "!", "\"", "#", "$", "%", "&", "'", "(", ")", "*", "+", ",", "-", ".", "/", "0", "1",
    "2", "3", "4", "5", "6", "7", "8", "9", ":", ";", "<", "=", ">", "?", "@", "A", "B", "C",
    "D", "E", "F", "G", "H", "I", "J", "K", "L", "M", "N", "O", "P", "Q", "R", "S", "T", "U",
    "V", "W", "X", "Y", "Z", "[", "\\", "]", "^", "_">>

AsciiHigh ==
  <<"a", "b", "c", "d", "e", "f", "g", "h", "i", "j", "k", "l", "m", "n", "o", "p", "q", "r",
    "s", "t", "u", "v", "w", "x", "y", "z", "{", "|", "}", "~">>

CodeUnit(c) ==
  IF c = "\n" THEN 10
  ELSE IF c = "\t" THEN 9
  ELSE IF \E i \in 1..Len(AsciiLow) : AsciiLow[i] = c
       THEN 31 + (CHOOSE i \in 1..Len(AsciiLow) : AsciiLow[i] = c)
  ELSE 96 + (CHOOSE i \in 1..Len(AsciiHigh) : AsciiHigh[i] = c)

\* The white space String.prototype.trim removes, among the characters used here.
IsWhitespace(c) == c \in {" ", "\t", "\n"}

MinOf(S) == CHOOSE x \in S : \A y \in S : x <= y
MaxOf(S) == CHOOSE x \in S : \A y \in S : x >= y

Trim(s) ==
  LET keep == {i \in 1..Len(s) : ~IsWhitespace(s[i])}
  IN  IF keep = {} THEN <<>> ELSE SubSeq(s, MinOf(keep), MaxOf(keep))

StartsWith(s, p) == Len(s) >= Len(p) /\ SubSeq(s, 1, Len(p)) = p

EndsWith(s, p) == Len(s) >= Len(p) /\ SubSeq(s, Len(s) - Len(p) + 1, Len(s)) = p

Includes(s, p) ==
  \E i \in 0..(Len(s) - Len(p)) : s[i + 1] = p[1] /\ SubSeq(s, i + 1, i + Len(p)) = p

\* s.indexOf(c): 0-based position of the first c, or -1.
IndexOf(s, c) ==
  LET hits == {i \in 1..Len(s) : s[i] = c}
  IN  IF hits = {} THEN 0 - 1 ELSE MinOf(hits) - 1

\* s.substring(start, end): 0-based, arguments clamped to [0, length] and
\* swapped when start > end.
Substring(s, start, end) ==
  LET Clamp(n) == IF n < 0 THEN 0 ELSE IF n > Len(s) THEN Len(s) ELSE n
      a == Clamp(start)
      b == Clamp(end)
  IN  IF a <= b THEN SubSeq(s, a + 1, b) ELSE SubSeq(s, b + 1, a)

\* content.split('\n')
SplitLines(s) ==
  LET nl == {i \in 1..Len(s) : s[i] = "\n"}
      n == Cardinality(nl)
      Cut(k) == IF k = 0 THEN 0
                ELSE IF k = n + 1 THEN Len(s) + 1
                ELSE CHOOSE p \in nl : Cardinality({q \in nl : q < p}) = k - 1
  IN  [k \in 1..(n + 1) |-> SubSeq(s, Cut(k - 1) + 1, Cut(k) - 1)]

\* lines.join('\n')
RECURSIVE JoinLines(_)
JoinLines(lines) ==
  IF Len(lines) = 0 THEN <<>>
  ELSE IF Len(lines) = 1 THEN lines[1]
  ELSE lines[1] \o <<"\n">> \o JoinLines(Tail(lines))

\* command.replace(/'/g, "'\\''")
RECURSIVE EscapeQuotes(_)
EscapeQuotes(s) ==
  IF s = <<>> THEN <<>>
  ELSE IF Head(s) = "'" THEN EscapedQuote \o EscapeQuotes(Tail(s))
  ELSE <<Head(s)>> \o EscapeQuotes(Tail(s))

\* value.replace(/'\\''/g, "'"): leftmost matches, not overlapping.
RECURSIVE UnescapeQuotes(_)
UnescapeQuotes(s) ==
  IF s = <<>> THEN <<>>
  ELSE IF StartsWith(s, EscapedQuote)
       THEN <<"'">> \o UnescapeQuotes(SubSeq(s, Len(EscapedQuote) + 1, Len(s)))
  ELSE <<Head(s)>> \o UnescapeQuotes(Tail(s))

\* a < b as Array.prototype.sort compares strings: by code unit, a proper
\* prefix first.
StrLess(a, b) ==
  \E i \in 1..(Len(b)) :
    /\ i <= Len(a) + 1
    /\ SubSeq(a, 1, i - 1) = SubSeq(b, 1, i - 1)
    /\ \/ i = Len(a) + 1
       \/ i <= Len(a) /\ CodeUnit(a[i]) < CodeUnit(b[i])

----------------------------------------------------------------------------
(* A JavaScript object used as a map: <<key, value>> pairs in insertion   *)
(* order, keys unique.                                                     *)

ObjKeys(o) == [i \in 1..Len(o) |-> o[i][1]]

ObjKeySet(o) == {o[i][1] : i \in 1..Len(o)}

ObjHas(o, k) == \E i \in 1..Len(o) : o[i][1] = k

ObjGet(o, k) == o[CHOOSE i \in 1..Len(o) : o[i][1] = k][2]

\* o[k] = v
ObjSet(o, k, v) ==
  IF ObjHas(o, k)
  THEN [i \in 1..Len(o) |-> IF o[i][1] = k THEN <<k, v>> ELSE o[i]]
  ELSE Append(o, <<k, v>>)

\* delete o[k]
ObjDelete(o, k) == SelectSeq(o, LAMBDA e : e[1] # k)

\* The truthiness of o[k] for string values: defined and not the empty string.
Truthy(o, k) == ObjHas(o, k) /\ ObjGet(o, k) # <<>>

\* The map as a function, insertion order forgotten.
ObjMap(o) == [k \in ObjKeySet(o) |-> ObjGet(o, k)]

\* SortedKeys without the sort: the keys in insertion order
SortedKeysUnsorted(o) == ObjKeys(o)

\* Object.keys(o).sort()
SortedKeys(o) ==
  LET ks == ObjKeySet(o)
  IN  [i \in 1..Cardinality(ks) |->
         CHOOSE k \in ks : Cardinality({j \in ks : StrLess(j, k)}) = i - 1]

----------------------------------------------------------------------------
(* The alias line codec *)

\* StripQuotes with the closing quote left in place
StripQuotesOffByOne(value) ==
  IF \/ StartsWith(value, <<"'">>) /\ EndsWith(value, <<"'">>)
     \/ StartsWith(value, <<"\"">>) /\ EndsWith(value, <<"\"">>)
  THEN Substring(value, 1, Len(value))
  ELSE value

StripQuotes(value) ==
  IF \/ StartsWith(value, <<"'">>) /\ EndsWith(value, <<"'">>)
     \/ StartsWith(value, <<"\"">>) /\ EndsWith(value, <<"\"">>)
  THEN Substring(value, 1, Len(value) - 1)
  ELSE value

\* ParseLine without the test for a missing "="
ParseLineNoEqualsTest(aliases, line) ==
  LET trimmed == Trim(line)
      eqIndex == IndexOf(trimmed, "=")
      key == Trim(Substring(trimmed, 6, eqIndex))
      value == StripQuotes(Trim(Substring(trimmed, eqIndex + 1, Len(trimmed))))
  IN  IF trimmed = <<>> \/ StartsWith(trimmed, <<"#">>) THEN aliases
      ELSE IF ~StartsWith(trimmed, AliasPrefix) THEN aliases
      ELSE ObjSet(aliases, key, UnescapeQuotes(value))

\* One iteration of the loop of parseAliases.
ParseLine(aliases, line) ==
  LET trimmed == Trim(line)
      eqIndex == IndexOf(trimmed, "=")
      key == Trim(Substring(trimmed, 6, eqIndex))
      value == StripQuotes(Trim(Substring(trimmed, eqIndex + 1, Len(trimmed))))
  IN  IF trimmed = <<>> \/ StartsWith(trimmed, <<"#">>) THEN aliases
      ELSE IF ~StartsWith(trimmed, AliasPrefix) THEN aliases
      ELSE IF eqIndex = 0 - 1 THEN aliases
      ELSE ObjSet(aliases, key, UnescapeQuotes(value))

RECURSIVE ParseLines(_, _, _)
ParseLines(aliases, lines, i) ==
  IF i > Len(lines) THEN aliases
  ELSE ParseLines(ParseLine(aliases, lines[i]), lines, i + 1)

parseAliases(content) == ParseLines(<<>>, SplitLines(content), 1)

AliasLine(name, command) ==
  AliasPrefix \o name \o <<"=", "'">> \o EscapeQuotes(command) \o <<"'">>

\* SerializeAliases without the newline after the last line
SerializeAliasesNoTrailingNewline(aliases) ==
  LET sortedKeys == SortedKeys(aliases)
      lines == <<ManagedHeader>> \o
               [i \in 1..Len(sortedKeys) |->
                  AliasLine(sortedKeys[i], ObjGet(aliases, sortedKeys[i]))]
  IN  JoinLines(lines)

\* The text writeAliases builds for a map.
SerializeAliases(aliases) ==
  LET sortedKeys == SortedKeys(aliases)
      lines == <<ManagedHeader>> \o
               [i \in 1..Len(sortedKeys) |->
                  AliasLine(sortedKeys[i], ObjGet(aliases, sortedKeys[i]))]
  IN  JoinLines(lines) \o <<"\n">>

----------------------------------------------------------------------------
(* Files, console and the metadata store *)

NoFile == [exists |-> FALSE, content |-> <<>>]

TextFile(content) == [exists |-> TRUE, content |-> content]

EmptyMap == [k \in {} |-> <<>>]

NoMetadataFile == [exists |-> FALSE, data |-> EmptyMap]

\* An AliasMetadata object.  An optional field is the empty sequence when
\* absent and a one-element sequence holding its value when present.
EmptyMeta == [tags |-> <<>>, created |-> <<>>, tag |-> <<>>]

\* { ...base, ...data }
Spread(base, data) ==
  [f \in {"tags", "created", "tag"} |-> IF data[f] # <<>> THEN data[f] ELSE base[f]]

MapHas(m, k) == k \in DOMAIN m

\* m[k], with undefined read as the object without fields
MapGet(m, k) == IF k \in DOMAIN m THEN m[k] ELSE EmptyMeta

MapSet(m, k, v) == [x \in (DOMAIN m) \cup {k} |-> IF x = k THEN v ELSE m[x]]

MapDelete(m, k) == [x \in (DOMAIN m) \ {k} |-> m[x]]

\* The state a handler works on: the files and the console lines so far.
World ==
  [af |-> aliasesFile, mf |-> metadataFile, zf |-> zshrcFile, bk |-> backups,
   tmp |-> tmpFiles, out |-> <<>>]

Msg(kind, a, b) == [kind |-> kind, a |-> a, b |-> b]

Say(st, m) == [st EXCEPT !.out = Append(@, m)]

\* t.toLowerCase() for the tags used here
ToLowerCase(t) == IF t = "Git" THEN "git" ELSE t

getAliasTags(meta) ==
  IF meta.tags # <<>> /\ Len(meta.tags[1]) > 0 THEN meta.tags[1]
  ELSE IF meta.tag # <<>> /\ meta.tag[1] # "" THEN <<meta.tag[1]>>
  ELSE <<>>

\* aliasHasTag comparing the tags as they are written
aliasHasTagExact(meta, tag) ==
  \E i \in 1..Len(getAliasTags(meta)) : getAliasTags(meta)[i] = tag

aliasHasTag(meta, tag) ==
  \E i \in 1..Len(getAliasTags(meta)) :
    ToLowerCase(getAliasTags(meta)[i]) = ToLowerCase(tag)

readMetadata(st) == IF st.mf.exists THEN st.mf.data ELSE EmptyMap

writeMetadata(st, metadata) == [st EXCEPT !.mf = [exists |-> TRUE, data |-> metadata]]

setAliasMetadata(st, aliasName, data) ==
  LET metadata == readMetadata(st)
  IN  writeMetadata(st, MapSet(metadata, aliasName, Spread(MapGet(metadata, aliasName), data)))

removeAliasMetadata(st, aliasName) ==
  writeMetadata(st, MapDelete(readMetadata(st), aliasName))

ensureSetup(st, dryRun) ==
  LET s1 == IF st.af.exists THEN st
            ELSE IF dryRun THEN Say(st, Msg("dry:create-aliases-file", <<>>, <<>>))
            ELSE Say([st EXCEPT !.af = TextFile(ManagedHeader \o <<"\n">>)],
                     Msg("created-aliases-file", <<>>, <<>>))
      zshrcContent == s1.zf.content
      s2 == IF Includes(zshrcContent, SourceLine) \/ Includes(zshrcContent, SourceLineAlt)
            THEN s1
            ELSE IF dryRun THEN Say(s1, Msg("dry:add-source", <<>>, <<>>))
            ELSE Say([s1 EXCEPT !.zf.content = @ \o SourceInstruction],
                     Msg("added-source", <<>>, <<>>))
      s3 == IF Includes(zshrcContent, SHELL_WRAPPER_MARKER) THEN s2
            ELSE IF dryRun THEN Say(s2, Msg("dry:install-wrapper", <<>>, <<>>))
            ELSE Say([s2 EXCEPT !.zf.content = @ \o SHELL_WRAPPER],
                     Msg("installed-wrapper", <<>>, <<>>))
  IN  IF ~s1.zf.exists THEN Say(s1, Msg("warn:zshrc-not-found", <<>>, <<>>)) ELSE s3

\* readAliases after its call of ensureSetup
loadAliases(st) == IF st.af.exists THEN parseAliases(st.af.content) ELSE <<>>

\* writeAliases that writes the file in dry-run mode as well
writeAliasesAlways(st, aliases, dryRun) ==
  IF dryRun
  THEN [Say(st, Msg("dry:write-aliases", SerializeAliases(aliases), <<>>))
          EXCEPT !.af = TextFile(SerializeAliases(aliases))]
  ELSE [st EXCEPT !.af = TextFile(SerializeAliases(aliases))]

writeAliases(st, aliases, dryRun) ==
  IF dryRun THEN Say(st, Msg("dry:write-aliases", SerializeAliases(aliases), <<>>))
  ELSE [st EXCEPT !.af = TextFile(SerializeAliases(aliases))]

----------------------------------------------------------------------------
(* Command handlers: each maps the world before an invocation to the world *)
(* after it.                                                               *)

\* if (aliases[name]): the test the handlers use for "name is an alias"
aliasIsSet(aliases, name) == Truthy(aliases, name)

addHandler(st0, name, command, tag, now, dryRun) ==
  LET st1 == ensureSetup(st0, dryRun)
      aliases == loadAliases(st1)
      st2 == IF aliasIsSet(aliases, name)
             THEN Say(st1, Msg("overwriting", name, ObjGet(aliases, name)))
             ELSE st1
      st3 == writeAliases(st2, ObjSet(aliases, name, command), dryRun)
      metaData == [tags |-> IF Len(tag) > 0 THEN <<tag>> ELSE <<>>,
                   created |-> <<now>>, tag |-> <<>>]
  IN  IF dryRun THEN st3
      ELSE Say(setAliasMetadata(st3, name, metaData), Msg("added", name, tag))

\* removeHandler without the return after the not-found report
removeHandlerNoReturn(st0, name, dryRun) ==
  LET st1 == ensureSetup(st0, dryRun)
      aliases == loadAliases(st1)
      st2 == IF aliasIsSet(aliases, name) THEN st1
             ELSE Say(st1, Msg("error:not-found", name, <<>>))
      st3 == writeAliases(st2, ObjDelete(aliases, name), dryRun)
  IN  IF dryRun THEN st3
      ELSE Say(removeAliasMetadata(st3, name), Msg("removed", name, <<>>))

removeHandler(st0, name, dryRun) ==
  LET st1 == ensureSetup(st0, dryRun)
      aliases == loadAliases(st1)
      st2 == writeAliases(st1, ObjDelete(aliases, name), dryRun)
  IN  IF ~aliasIsSet(aliases, name) THEN Say(st1, Msg("error:not-found", name, <<>>))
      ELSE IF dryRun THEN st2
      ELSE Say(removeAliasMetadata(st2, name), Msg("removed", name, <<>>))

renameHandler(st0, oldName, newName, dryRun) ==
  LET st1 == ensureSetup(st0, dryRun)
      aliases == loadAliases(st1)
      moved == ObjDelete(ObjSet(aliases, newName, ObjGet(aliases, oldName)), oldName)
      st2 == writeAliases(st1, moved, dryRun)
      metadata == readMetadata(st2)
      st3 == IF MapHas(metadata, oldName)
             THEN writeMetadata(st2, MapDelete(MapSet(metadata, newName, metadata[oldName]),
                                               oldName))
             ELSE st2
  IN  IF ~aliasIsSet(aliases, oldName) THEN Say(st1, Msg("error:not-found", oldName, <<>>))
      ELSE IF aliasIsSet(aliases, newName)
           THEN Say(st1, Msg("error:already-exists", newName, <<>>))
      ELSE IF dryRun THEN st2
      ELSE Say(st3, Msg("renamed", oldName, newName))

\* The --add loop without its test: every given tag is pushed
addTagsAppendAll(newTags, toAdd) == newTags \o toAdd

\* The --add loop: push each tag no tag of the list equals ignoring case.
RECURSIVE addTags(_, _)
addTags(newTags, toAdd) ==
  IF toAdd = <<>> THEN newTags
  ELSE IF \E i \in 1..Len(newTags) : ToLowerCase(newTags[i]) = ToLowerCase(Head(toAdd))
       THEN addTags(newTags, Tail(toAdd))
  ELSE addTags(Append(newTags, Head(toAdd)), Tail(toAdd))

\* The --remove filter
removeTags(newTags, toRemove) ==
  SelectSeq(newTags, LAMBDA t :
    ~\E i \in 1..Len(toRemove) : ToLowerCase(toRemove[i]) = ToLowerCase(t))

\* taggedMeta without the deletion of the legacy field
taggedMetaKeepLegacy(meta, newTags) ==
  IF Len(newTags) = 0 THEN [meta EXCEPT !.tags = <<>>]
  ELSE [meta EXCEPT !.tags = <<newTags>>]

\* The record stored for a new tag list (both branches of "Update metadata")
taggedMeta(meta, newTags) ==
  IF Len(newTags) = 0 THEN [meta EXCEPT !.tags = <<>>, !.tag = <<>>]
  ELSE [meta EXCEPT !.tags = <<newTags>>, !.tag = <<>>]

\* option is the one given among --set, --add, --remove, --clear, or "show".
tagHandler(st0, name, option, tags, dryRun) ==
  LET st1 == ensureSetup(st0, dryRun)
      aliases == loadAliases(st1)
      metadata == readMetadata(st1)
      currentTags == getAliasTags(MapGet(metadata, name))
      newTags == IF option = "clear" THEN <<>>
                 ELSE IF option = "set" THEN tags
                 ELSE IF option = "add" THEN addTags(currentTags, tags)
                 ELSE removeTags(currentTags, tags)
      st2 == writeMetadata(st1, MapSet(metadata, name, taggedMeta(MapGet(metadata, name), newTags)))
  IN  IF ~aliasIsSet(aliases, name) THEN Say(st1, Msg("error:not-found", name, <<>>))
      ELSE IF option = "show" THEN Say(st1, Msg("tags", name, currentTags))
      ELSE IF dryRun THEN Say(st1, Msg("dry:tags", name, tags))
      ELSE IF Len(newTags) = 0 THEN Say(st2, Msg("tags-cleared", name, <<>>))
      ELSE Say(st2, Msg("tags-updated", name, newTags))

\* The regular expression /^alias\s+([^=]+)=(.+)/ matches the trimmed line:
\* "alias", white space, at least one more character before the first "=",
\* and at least one character after it.
aliasLineMatches(trimmed) ==
  LET eqIndex == IndexOf(trimmed, "=")
  IN  /\ StartsWith(trimmed, AliasKeyword)
      /\ eqIndex >= Len(AliasKeyword) + 2
      /\ IsWhitespace(trimmed[Len(AliasKeyword) + 1])
      /\ Len(trimmed) > eqIndex + 1

\* One iteration of the loop of runImport; acc holds managedAliases,
\* newZshrcLines, the imported names and the console lines.
importLine(acc, line) ==
  LET trimmed == Trim(line)
      eqIndex == IndexOf(trimmed, "=")
      name == Trim(Substring(trimmed, Len(AliasKeyword), eqIndex))
      value == StripQuotes(Trim(Substring(trimmed, eqIndex + 1, Len(trimmed))))
      keep == [acc EXCEPT !.newZshrcLines = Append(@, line)]
  IN  IF ~StartsWith(trimmed, AliasKeyword) \/ StartsWith(trimmed, <<"#">>) THEN keep
      ELSE IF ~aliasLineMatches(trimmed) THEN keep
      ELSE IF aliasIsSet(acc.managedAliases, name)
           THEN [keep EXCEPT !.out = Append(@, Msg("skipping", name, <<>>))]
      ELSE [managedAliases |-> ObjSet(acc.managedAliases, name, value),
            newZshrcLines |-> Append(acc.newZshrcLines, MovedPrefix \o line),
            imported |-> Append(acc.imported, name),
            out |-> Append(acc.out, Msg("importing", name, <<>>))]

RECURSIVE importLines(_, _, _)
importLines(acc, lines, i) ==
  IF i > Len(lines) THEN acc
  ELSE importLines(importLine(acc, lines[i]), lines, i + 1)

runImport(st0, dryRun) ==
  LET lines == SplitLines(st0.zf.content)
      st1 == ensureSetup(st0, dryRun)
      r == importLines([managedAliases |-> loadAliases(st1), newZshrcLines |-> <<>>,
                        imported |-> <<>>, out |-> st1.out], lines, 1)
      st2 == [st1 EXCEPT !.out = r.out]
      st3 == writeAliases(st2, r.managedAliases, dryRun)
  IN  IF ~st0.zf.exists THEN Say(st0, Msg("error:zshrc-not-found", <<>>, <<>>))
      ELSE IF Len(r.imported) = 0 THEN Say(st2, Msg("nothing-to-import", <<>>, <<>>))
      ELSE IF dryRun THEN Say(st2, Msg("dry:import", r.imported, <<>>))
      ELSE Say([st3 EXCEPT !.zf = TextFile(JoinLines(r.newZshrcLines))],
               Msg("imported", r.imported, <<>>))

runBackup(st0, dryRun) ==
  IF dryRun THEN Say(st0, Msg("dry:backup", <<>>, <<>>))
  ELSE IF ~st0.af.exists THEN Say(st0, Msg("error:no-aliases-file", <<>>, <<>>))
  ELSE Say([st0 EXCEPT !.bk = Append(@, st0.af.content)], Msg("backup-created", <<>>, <<>>))

\* file is the position of a backup, or 0 for a path where no file exists.
\* A restore that adds the entries of the backup to the current mapping
runRestoreMerged(st0, file, dryRun) ==
  IF file = 0 \/ dryRun THEN st0
  ELSE LET restored == parseAliases(st0.bk[file])
       IN  [st0 EXCEPT !.af = TextFile(SerializeAliases(
              SelectSeq(loadAliases(st0), LAMBDA e : ~ObjHas(restored, e[1])) \o restored))]

runRestore(st0, file, dryRun) ==
  IF file = 0 THEN Say(st0, Msg("error:backup-not-found", <<>>, <<>>))
  ELSE IF dryRun THEN Say(st0, Msg("dry:restore", <<>>, <<>>))
  ELSE Say([st0 EXCEPT !.af = TextFile(st0.bk[file])], Msg("restored", <<>>, <<>>))


\* zam edit <name>.  edited is the text the editor leaves in the temporary
\* file and code the editor's exit status.  The temporary file is written
\* before the dry-run test and unlinked only in the editor's exit callback.
editHandler(st0, name, edited, code, dryRun) ==
  LET st1 == ensureSetup(st0, dryRun)
      aliases == loadAliases(st1)
      st2 == [st1 EXCEPT !.tmp = @ + 1]
      newCommand == Trim(edited)
      st3 == IF code # 0 THEN Say(st2, Msg("error:editor", <<>>, <<>>))
             ELSE IF newCommand # <<>> /\ newCommand # ObjGet(aliases, name)
             THEN Say(writeAliases(st2, ObjSet(aliases, name, newCommand), FALSE),
                      Msg("updated", name, <<>>))
             ELSE Say(st2, Msg("no-changes", <<>>, <<>>))
  IN  IF ~aliasIsSet(aliases, name) THEN Say(st1, Msg("error:not-found", name, <<>>))
      ELSE IF dryRun THEN Say(st2, Msg("dry:edit", name, <<>>))
      ELSE [st3 EXCEPT !.tmp = @ - 1]

\* zam list [--tag <tag>].  tag is "" when the option is not given; the
\* handler tests if (options.tag), so an empty tag filters nothing.
listHandler(st0, tag, dryRun) ==
  LET st1 == ensureSetup(st0, dryRun)
      aliases == loadAliases(st1)
      metadata == readMetadata(st1)
      entries == IF tag # ""
                 THEN SelectSeq(ObjKeys(aliases),
                                LAMBDA name : aliasHasTag(MapGet(metadata, name), tag))
                 ELSE ObjKeys(aliases)
      shown == [i \in 1..Len(entries) |->
                  Msg("list-entry", entries[i],
                      <<ObjGet(aliases, entries[i]),
                        getAliasTags(MapGet(metadata, entries[i]))>>)]
  IN  IF Len(entries) = 0
      THEN IF tag # "" THEN Say(st1, Msg("no-aliases-with-tag", tag, <<>>))
           ELSE Say(st1, Msg("no-aliases", <<>>, <<>>))
      ELSE [st1 EXCEPT !.out = (@ \o <<Msg("list-header", tag, <<>>)>>) \o shown]
----------------------------------------------------------------------------
(* Interactive mode: one iteration of the menu loop per chosen action.    *)
(* Every iteration starts with readAliases() and readMetadata().          *)

interactiveAdd(st0, name, command, tags, now, dryRun) ==
  LET st1 == ensureSetup(st0, dryRun)
      aliases == loadAliases(st1)
      st2 == writeAliases(st1, ObjSet(aliases, name, command), dryRun)
      metaData == [tags |-> IF Len(tags) > 0 THEN <<tags>> ELSE <<>>,
                   created |-> <<now>>, tag |-> <<>>]
  IN  IF name = <<>> \/ command = <<>> THEN st1
      ELSE Say(setAliasMetadata(st2, name, metaData), Msg("added", name, tags))

interactiveEdit(st0, selected, newCommand, dryRun) ==
  LET st1 == ensureSetup(st0, dryRun)
      aliases == loadAliases(st1)
  IN  IF newCommand # <<>> /\ newCommand # ObjGet(aliases, selected)
      THEN Say(writeAliases(st1, ObjSet(aliases, selected, newCommand), dryRun),
               Msg("updated", selected, <<>>))
      ELSE Say(st1, Msg("no-changes", <<>>, <<>>))

interactiveDelete(st0, selected, confirmed, dryRun) ==
  LET st1 == ensureSetup(st0, dryRun)
      aliases == loadAliases(st1)
      st2 == writeAliases(st1, ObjDelete(aliases, selected), dryRun)
  IN  IF ~confirmed THEN st1
      ELSE Say(removeAliasMetadata(st2, selected), Msg("removed", selected, <<>>))

interactiveRename(st0, selected, newName, dryRun) ==
  LET st1 == ensureSetup(st0, dryRun)
      aliases == loadAliases(st1)
      metadata == readMetadata(st1)
      moved == ObjDelete(ObjSet(aliases, newName, ObjGet(aliases, selected)), selected)
      st2 == writeAliases(st1, moved, dryRun)
      meta == readMetadata(st2)
      st3 == IF MapHas(metadata, selected)
             THEN writeMetadata(st2, MapDelete(MapSet(meta, newName, MapGet(meta, selected)),
                                               selected))
             ELSE st2
  IN  IF newName = <<>> \/ newName = selected THEN st1
      ELSE IF aliasIsSet(aliases, newName)
           THEN Say(st1, Msg("error:already-exists", newName, <<>>))
      ELSE Say(st3, Msg("renamed", selected, newName))

\* tagAction is the choice of the "Edit Tags" submenu; given tells whether
\* the tags prompt was answered with a non-empty text, inputTags is the list
\* that text splits into, and tagToRemove the tag picked for "remove".
interactiveEditTags(st0, selected, tagAction, given, inputTags, tagToRemove, dryRun) ==
  LET st1 == ensureSetup(st0, dryRun)
      metadata == readMetadata(st1)
      old == MapGet(metadata, selected)
      currentTags == getAliasTags(old)
      cleared == [old EXCEPT !.tags = <<>>, !.tag = <<>>]
      newTags == IF tagAction = "set" THEN inputTags ELSE addTags(currentTags, inputTags)
      remaining == SelectSeq(currentTags, LAMBDA t : t # tagToRemove)
  IN  IF tagAction = "clear"
      THEN Say(writeMetadata(st1, MapSet(metadata, selected, cleared)),
               Msg("tags-cleared", selected, <<>>))
      ELSE IF tagAction \in {"set", "add"}
      THEN IF given
           THEN Say(writeMetadata(st1, MapSet(metadata, selected,
                                              [old EXCEPT !.tags = <<newTags>>, !.tag = <<>>])),
                    Msg("tags-updated", selected, newTags))
           ELSE st1
      ELSE IF tagAction = "remove"
      THEN Say(writeMetadata(st1, MapSet(metadata, selected,
                                         IF Len(remaining) = 0 THEN cleared
                                         ELSE [old EXCEPT !.tags = <<remaining>>, !.tag = <<>>])),
               Msg("tag-removed", selected, <<tagToRemove>>))
      ELSE st1

\* The names the search prompt of the menu offers
menuNames(st0, dryRun) == ObjKeySet(loadAliases(ensureSetup(st0, dryRun)))


\* The catch clause around the menu loop, for an error that is not an
\* ExitPromptError
interactiveCatch(st) == Say(st, Msg("error:interactive", <<>>, <<>>))

\* "Add Alias" of the menu when a call of fs throws: fault names the call,
\* fs.readFileSync in readAliases, fs.writeFileSync in writeAliases or
\* fs.writeFileSync in writeMetadata.  The error leaves the loop.
interactiveAddFailing(st0, name, command, tags, fault, dryRun) ==
  LET st1 == ensureSetup(st0, dryRun)
      aliases == loadAliases(st1)
      st2 == writeAliases(st1, ObjSet(aliases, name, command), dryRun)
  IN  IF fault = "writeMetadata" THEN interactiveCatch(st2) ELSE interactiveCatch(st1)

\* A save that first reloads the file and keeps the entries of other names
saveMappingMerged(st, aliases) ==
  writeAliases(st, SelectSeq(loadAliases(st), LAMBDA e : ~ObjHas(aliases, e[1])) \o aliases,
               FALSE)

\* writeAliases(aliases) of a process, with the mapping it holds in memory
saveMapping(st, aliases) == writeAliases(st, aliases, FALSE)
----------------------------------------------------------------------------
(* Bounds and inputs *)

MaxBackups == 1
MaxEntries == 2
MaxTmpFiles == 1

Names == {<<"a">>, <<"b">>}

Commands == {<<>>, <<"x">>, <<"y">>}

\* Values of a repeated --tag / --set / --add / --remove option
TagLists == {<<"git">>, <<"Git">>, <<"Git", "git">>}

TagOptions == {"show", "set", "add", "remove", "clear"}

\* A startup file of the user before zam is first run
UserZshrc ==
  <<"e", "x", "p", "o", "r", "t", " ", "P", "=", "1", "\n",
    "a", "l", "i", "a", "s", " ", "a", "=", "'", "x", "'", "\n",
    "a", "l", "i", "a", "s", " ", "b", "=", "'", "i", "'", "\\", "'", "'", "s", "'", "\n">>

----------------------------------------------------------------------------
(* The state machine of the tool's invocations *)

\* Nothing of zam exists yet.
FreshInit(zshrc) ==
  /\ aliasesFile = NoFile
  /\ metadataFile = NoMetadataFile
  /\ zshrcFile = zshrc

\* An installation of version 1.0.0, whose metadata holds the single legacy tag.
LegacyInit ==
  /\ aliasesFile = TextFile(SerializeAliases(<< <<<<"a">>, <<"x">>>> >>))
  /\ metadataFile = [exists |-> TRUE,
                     data |-> MapSet(EmptyMap, <<"a">>, [EmptyMeta EXCEPT !.tag = <<"git">>])]
  /\ zshrcFile = TextFile(SourceInstruction)

\* The processes that may run at the same time
Writers == {1, 2}

\* No process has started.
NoWriters == [p \in Writers |-> [pc |-> "idle", aliases |-> <<>>, savedAt |-> 0]]

Idle ==
  /\ session = "off"
  /\ writers = NoWriters
  /\ backups = <<>>
  /\ out = <<>>
  /\ mem = <<>>
  /\ exitCode = 0
  /\ tmpFiles = 0

\* The end of one invocation.  No handler sets process.exitCode, calls
\* process.exit or lets an error escape its try block, so the process ends
\* with status 0 whatever the handler reported.
Finish(st) ==
  /\ aliasesFile' = st.af
  /\ metadataFile' = st.mf
  /\ zshrcFile' = st.zf
  /\ backups' = st.bk
  /\ out' = st.out
  /\ tmpFiles' = st.tmp
  /\ exitCode' = 0
  /\ UNCHANGED <<mem, session, writers>>

Add(names, commands, tagLists) ==
  \E name \in names, command \in commands, tag \in tagLists :
    Finish(addHandler(World, name, command, tag, 1, FALSE))

Remove(names) ==
  \E name \in names : Finish(removeHandler(World, name, FALSE))

Rename ==
  \E oldName \in Names, newName \in Names :
    Finish(renameHandler(World, oldName, newName, FALSE))

Tag(names, options, tagLists) ==
  \E name \in names, option \in options :
    \E tags \in IF option \in {"show", "clear"} THEN {<<>>} ELSE tagLists :
      Finish(tagHandler(World, name, option, tags, FALSE))

Import ==
  Finish(runImport(World, FALSE))

Backup ==
  /\ Len(backups) < MaxBackups
  /\ Finish(runBackup(World, FALSE))

Restore ==
  \E file \in 0..Len(backups) : Finish(runRestore(World, file, FALSE))

InteractiveAdd(commands, tagLists) ==
  \E name \in Names \cup {<<>>}, command \in commands, tags \in tagLists :
    Finish(interactiveAdd(World, name, command, tags, 1, FALSE))

InteractiveEdit(commands) ==
  \E selected \in menuNames(World, FALSE), newCommand \in commands :
    Finish(interactiveEdit(World, selected, newCommand, FALSE))

InteractiveDelete ==
  \E selected \in menuNames(World, FALSE), confirmed \in BOOLEAN :
    Finish(interactiveDelete(World, selected, confirmed, FALSE))

InteractiveRename ==
  \E selected \in menuNames(World, FALSE), newName \in Names \cup {<<>>} :
    Finish(interactiveRename(World, selected, newName, FALSE))

\* "Remove tags" and "Clear all tags" are offered when the alias has tags;
\* the tag to remove is picked among the current tags.
InteractiveEditTags(tagLists) ==
  \E selected \in menuNames(World, FALSE) :
    LET currentTags == getAliasTags(MapGet(readMetadata(World), selected))
    IN  \/ \E tagAction \in {"set", "add"}, inputTags \in tagLists \cup {<<>>} :
             Finish(interactiveEditTags(World, selected, tagAction, TRUE, inputTags, "", FALSE))
        \/ \E tagAction \in {"set", "cancel"} :
             Finish(interactiveEditTags(World, selected, tagAction, FALSE, <<>>, "", FALSE))
        \/ /\ Len(currentTags) > 0
           /\ Finish(interactiveEditTags(World, selected, "clear", FALSE, <<>>, "", FALSE))
        \/ \E i \in 1..Len(currentTags) :
             Finish(interactiveEditTags(World, selected, "remove", FALSE, <<>>,
                                        currentTags[i], FALSE))

\* Adding, removing and renaming aliases, from the command line and the menu
Init ==
  /\ FreshInit(NoFile) \/ LegacyInit
  /\ Idle

Next ==
  \/ Add(Names, Commands, {<<>>, <<"git">>})
  \/ Remove(Names)
  \/ Rename
  \/ InteractiveAdd(Commands, {<<>>})
  \/ InteractiveEdit(Commands)
  \/ InteractiveDelete
  \/ InteractiveRename

Spec == Init /\ [][Next]_vars

\* Tag editing, on one alias
TagsNext ==
  \/ Add({<<"a">>}, {<<>>, <<"x">>}, {<<>>, <<"git">>, <<"Git", "git">>})
  \/ Remove({<<"a">>})
  \/ Tag({<<"a">>}, TagOptions, TagLists \cup {<<"work">>})
  \/ InteractiveEditTags(TagLists)

TagsSpec == Init /\ [][TagsNext]_vars

\* Backup and restore
BackupNext ==
  \/ Add(Names, {<<"x">>}, {<<>>})
  \/ Remove(Names)
  \/ Rename
  \/ Backup
  \/ Restore

BackupSpec == Init /\ [][BackupNext]_vars

\* Import from the startup file
ImportInit ==
  /\ FreshInit(TextFile(UserZshrc))
  /\ Idle

ImportNext ==
  \/ Add(Names, Commands, {<<>>})
  \/ Remove(Names)
  \/ Import

ImportSpec == ImportInit /\ [][ImportNext]_vars

----------------------------------------------------------------------------
(* The codec on its own: maps built entry by entry and written out.       *)

CodecNames == {<<"a">>, <<"B">>, <<"a", "b">>, <<" ", "a">>}

ItsATest == <<"i", "t", "'", "s", " ", "a", " ", "'", "t", "e", "s", "t", "'">>

CodecCommands ==
  {<<>>, ItsATest, EscapedQuote, <<"\\", "'">>, <<"\"", "x", " ", "\"">>}

CodecInit ==
  /\ FreshInit(NoFile)
  /\ Idle

\* aliases[name] = command; writeAliases(aliases)
CodecSet ==
  \E name \in CodecNames, command \in CodecCommands :
    /\ ObjHas(mem, name) \/ Len(mem) < MaxEntries
    /\ mem' = ObjSet(mem, name, command)
    /\ aliasesFile' = writeAliases(World, mem', FALSE).af
    /\ UNCHANGED <<metadataFile, zshrcFile, backups, out, exitCode, tmpFiles,
                 session, writers>>

\* delete aliases[name]; writeAliases(aliases)
CodecDelete ==
  \E name \in ObjKeySet(mem) :
    /\ mem' = ObjDelete(mem, name)
    /\ aliasesFile' = writeAliases(World, mem', FALSE).af
    /\ UNCHANGED <<metadataFile, zshrcFile, backups, out, exitCode, tmpFiles,
                 session, writers>>

CodecNext ==
  \/ CodecSet
  \/ CodecDelete

CodecSpec == CodecInit /\ [][CodecNext]_vars


----------------------------------------------------------------------------
(* Further invocations and slices *)

\* What an editor may leave in the temporary file of zam edit
EditedTexts == {<<>>, <<"x">>, <<" ", "y", "\n">>}

\* zam edit <name>, the editor ending with status code
Edit(names, codes) ==
  \E name \in names, edited \in EditedTexts, code \in codes :
    Finish(editHandler(World, name, edited, code, FALSE))

\* zam --dry-run add <name> <command> [--tag ...]
AddDryRun(names, commands, tagLists) ==
  \E name \in names, command \in commands, tag \in tagLists :
    Finish(addHandler(World, name, command, tag, 1, TRUE))

\* zam --dry-run edit <name>: the temporary file stays behind
EditDryRun(names) ==
  \E name \in names :
    /\ tmpFiles < MaxTmpFiles
    /\ Finish(editHandler(World, name, <<>>, 0, TRUE))

\* "Add Alias" of the menu started with --dry-run
InteractiveAddDryRun(commands, tagLists) ==
  \E name \in Names \cup {<<>>}, command \in commands, tags \in tagLists :
    Finish(interactiveAdd(World, name, command, tags, 1, TRUE))

\* Invocations with the global --dry-run option among ordinary ones
DryNext ==
  \/ Add(Names, {<<"x">>}, {<<>>})
  \/ Remove(Names)
  \/ AddDryRun(Names, Commands, {<<>>, <<"git">>})
  \/ EditDryRun(Names)
  \/ InteractiveAddDryRun({<<"y">>}, {<<>>})

DrySpec == Init /\ [][DryNext]_vars

\* Lines a user may have put into the managed alias file by hand
HandLines ==
  {<<>>, <<"#", " ", "c">>, <<"e", "x", "p", "o", "r", "t", " ", "P", "=", "1">>,
   <<"a", "l", "i", "a", "s", " ", "n", "o", "e", "q">>,
   <<"a", "l", "i", "a", "s", " ", "a", "=", "'", "x", "'">>,
   <<" ", "a", "l", "i", "a", "s", " ", "b", "=", "y", " ">>,
   <<"a", "l", "i", "a", "s", " ", "a", "=", "\"", "z", "\"">>}

MaxLines == 3

\* The alias file is empty or absent, and nothing has been read yet.
ParseInit ==
  /\ aliasesFile \in {NoFile, TextFile(<<>>)}
  /\ metadataFile = NoMetadataFile
  /\ zshrcFile = NoFile
  /\ Idle

\* The user appends a line to the alias file.
HandEdit(handLines) ==
  \E line \in handLines :
    /\ aliasesFile.exists
    /\ Len(SplitLines(aliasesFile.content)) <= MaxLines
    /\ aliasesFile' = TextFile(aliasesFile.content \o line \o <<"\n">>)
    /\ UNCHANGED <<metadataFile, zshrcFile, backups, out, mem, exitCode, tmpFiles,
                 session, writers>>

\* readAliases(true): load the file as it is
ReadAliases ==
  /\ mem' = loadAliases(World)
  /\ UNCHANGED <<aliasesFile, metadataFile, zshrcFile, backups, out, exitCode, tmpFiles,
                 session, writers>>

ParseNext ==
  \/ HandEdit(HandLines)
  \/ ReadAliases

ParseSpec == ParseInit /\ [][ParseNext]_vars

\* Values of list --tag; "" stands for the option not given
TagFilters == {"", "git", "Git", "work"}

\* zam list [--tag <tag>]
List(tags) ==
  \E tag \in tags : Finish(listHandler(World, tag, FALSE))

\* The user sources the alias file from the startup file by a line of their
\* own; the alias b was imported, so it has no metadata record.
LinkedInit ==
  /\ aliasesFile = TextFile(SerializeAliases(<< <<<<"b">>, <<"y">>>> >>))
  /\ metadataFile = NoMetadataFile
  /\ zshrcFile = TextFile(SourceLine)

ListInit ==
  /\ LinkedInit \/ LegacyInit
  /\ Idle

ListNext ==
  \/ Add(Names, {<<"x">>}, {<<>>, <<"Git">>, <<"work">>})
  \/ Remove(Names)
  \/ List(TagFilters)

ListSpec == ListInit /\ [][ListNext]_vars

\* Every invocation that writes the alias file, and a user who also
\* edits the file by hand
CanonNext ==
  \/ Add({<<"a">>}, {<<"x">>}, {<<>>})
  \/ Edit({<<"b">>}, {0})
  \/ Import
  \/ Backup
  \/ Restore
  \/ HandEdit({<<"a", "l", "i", "a", "s", " ", "c", "=", "z">>})

CanonSpec == ImportInit /\ [][CanonNext]_vars

\* Readings of the clock (new Date()) at two invocations
Times == {1, 2}

AddAt(names, commands, tagLists, times) ==
  \E name \in names, command \in commands, tag \in tagLists, now \in times :
    Finish(addHandler(World, name, command, tag, now, FALSE))

InteractiveAddAt(commands, tagLists, times) ==
  \E name \in Names, command \in commands, tags \in tagLists, now \in times :
    Finish(interactiveAdd(World, name, command, tags, now, FALSE))

\* The operations on a name that has a metadata record, at different times
CreatedNext ==
  \/ AddAt(Names, {<<"x">>, <<"y">>}, {<<>>, <<"git">>}, Times)
  \/ InteractiveAddAt({<<"x">>}, {<<>>}, Times)
  \/ Remove(Names)
  \/ Edit(Names, {0})
  \/ Tag({<<"a">>}, {"set", "clear"}, {<<"work">>})

CreatedSpec == Init /\ [][CreatedNext]_vars

\* The calls of fs that may throw during "Add Alias"
Faults == {"readAliases", "writeAliases", "writeMetadata"}

\* zam is started without a command: the menu is shown.
SessionStart ==
  /\ session = "off"
  /\ session' = "menu"
  /\ out' = <<>>
  /\ UNCHANGED <<aliasesFile, metadataFile, zshrcFile, backups, mem, exitCode, tmpFiles,
                 writers>>

\* One pass of the menu loop whose action returns normally
MenuAction ==
  /\ session = "menu"
  /\ \/ InteractiveAdd({<<"x">>}, {<<>>, <<"git">>})
     \/ InteractiveDelete
     \/ InteractiveRename

\* One pass of the menu loop during which a call of fs throws
MenuIOFailure ==
  \E name \in Names, fault \in Faults :
    LET st == interactiveAddFailing(World, name, <<"x">>, <<>>, fault, FALSE)
    IN  /\ session = "menu"
        /\ session' = "ended"
        /\ aliasesFile' = st.af
        /\ metadataFile' = st.mf
        /\ zshrcFile' = st.zf
        /\ out' = st.out
        /\ UNCHANGED <<backups, mem, exitCode, tmpFiles, writers>>

\* The Exit choice, or Ctrl+C at a prompt (ExitPromptError)
MenuExit ==
  /\ session = "menu"
  /\ session' = "ended"
  /\ out' = <<Msg("bye", <<>>, <<>>)>>
  /\ UNCHANGED <<aliasesFile, metadataFile, zshrcFile, backups, mem, exitCode, tmpFiles,
                 writers>>

SessionNext ==
  \/ SessionStart
  \/ MenuAction
  \/ MenuIOFailure
  \/ MenuExit

SessionSpec == Init /\ [][SessionNext]_vars

\* const aliases = readAliases() of process p
WriterLoad(p) ==
  LET st == ensureSetup(World, FALSE)
  IN  /\ writers[p].pc = "idle"
      /\ writers' = [writers EXCEPT ![p].pc = "loaded", ![p].aliases = loadAliases(st)]
      /\ aliasesFile' = st.af
      /\ zshrcFile' = st.zf
      /\ out' = st.out
      /\ UNCHANGED <<metadataFile, backups, mem, exitCode, tmpFiles, session>>

\* aliases[name] = command of process p: add's assignment, or the one of the
\* exit callback of edit once the editor has closed
WriterChange(p) ==
  \E name \in Names, command \in {<<"x">>, <<"y">>} :
    /\ writers[p].pc = "loaded"
    /\ writers' = [writers EXCEPT ![p].pc = "changed",
                                  ![p].aliases = ObjSet(@, name, command)]
    /\ UNCHANGED <<aliasesFile, metadataFile, zshrcFile, backups, out, mem, exitCode,
                   tmpFiles, session>>

\* writeAliases(aliases) of process p
WriterSave(p) ==
  /\ writers[p].pc = "changed"
  /\ writers' = [writers EXCEPT
                   ![p].pc = "saved",
                   ![p].savedAt = 1 + Cardinality({q \in Writers : writers[q].savedAt > 0})]
  /\ aliasesFile' = saveMapping(World, writers[p].aliases).af
  /\ UNCHANGED <<metadataFile, zshrcFile, backups, out, mem, exitCode, tmpFiles, session>>

WritersNext ==
  \E p \in Writers :
    \/ WriterLoad(p)
    \/ WriterChange(p)
    \/ WriterSave(p)

WritersSpec == Init /\ [][WritersNext]_vars

----------------------------------------------------------------------------
(* Properties *)

NameHasNoEqualsOrNewline(name) == \A i \in 1..Len(name) : name[i] \notin {"=", "\n"}

NameIsTrimmed(name) == Trim(name) = name

\* The file was just written from mem, and parsing it gives mem back.
RoundTrips == ObjMap(parseAliases(aliasesFile.content)) = ObjMap(mem)

IsEscapedForm(e, command) ==
  LET QuotesBefore(i) == Cardinality({j \in 1..(i - 1) : command[j] = "'"})
      At(i) == i + 3 * QuotesBefore(i)
  IN  /\ Len(e) = Len(command) + 3 * QuotesBefore(Len(command) + 1)
      /\ \A i \in 1..Len(command) :
           IF command[i] = "'"
           THEN SubSeq(e, At(i), At(i) + 3) = <<"'", "\\", "'", "'">>
           ELSE e[At(i)] = command[i]

IsAliasLineOf(line, name, command) ==
  LET head == AliasPrefix \o name \o <<"=", "'">>
  IN  /\ StartsWith(line, head)
      /\ EndsWith(line, <<"'">>)
      /\ Len(line) >= Len(head) + 1
      /\ IsEscapedForm(SubSeq(line, Len(head) + 1, Len(line) - 1), command)

\* The orders in which the entries of mem can have been inserted
Reorderings(o) ==
  {p \in [1..Len(o) -> 1..Len(o)] : \A i, j \in 1..Len(o) : p[i] = p[j] => i = j}

\* C2: the written text is the header line, then one line alias <name>='<escaped>'
\* per alias in ascending order of name, then one trailing newline; it is the
\* same for every insertion order of the entries.
C2_SerializedForm ==
  aliasesFile.exists =>
    LET lines == SplitLines(aliasesFile.content)
        n == Len(mem)
    IN  /\ Len(lines) = n + 2
        /\ lines[1] = ManagedHeader
        /\ lines[n + 2] = <<>>
        /\ \E p \in Reorderings(mem) :
             /\ \A i \in 1..n : IsAliasLineOf(lines[i + 1], mem[p[i]][1], mem[p[i]][2])
             /\ \A i \in 1..(n - 1) : StrLess(mem[p[i]][1], mem[p[i + 1]][1])
        /\ \A p \in Reorderings(mem) :
             SerializeAliases([i \in 1..n |-> mem[p[i]]]) = aliasesFile.content

\* Two aliases inserted in descending order of name, one command with quotes.
C2_Witness ==
  /\ aliasesFile.exists
  /\ Len(mem) = 2
  /\ mem[1][1] = <<"a">> /\ mem[2][1] = <<"B">>
  /\ mem[2][2] = ItsATest


----------------------------------------------------------------------------
(* Properties of the handlers.  An action formula Finish(h) => P says: a   *)
(* step that is the invocation h leaves P true.                            *)

\* What loading an alias file yields, as a function from names to commands
Loaded(file) == IF file.exists THEN ObjMap(parseAliases(file.content)) ELSE ObjMap(<<>>)

\* The records of a metadata file
Records(file) == IF file.exists THEN file.data ELSE EmptyMap

Printed(lines, kind, a, b) == \E i \in 1..Len(lines) : lines[i] = Msg(kind, a, b)

\* Every name but those of except is mapped as before, and no name appeared.
SameElsewhere(before, after, except) ==
  /\ (DOMAIN after) \ except = (DOMAIN before) \ except
  /\ \A k \in (DOMAIN before) \ except : after[k] = before[k]

\* C3: after a non-dry-run add, loading the alias file maps name to command
\* and every other name as before; if name was present, the add overwrites
\* it and prints a notice naming the overwritten command.
C3_AddUpserts ==
  [][\A name \in Names, command \in Commands, tag \in {<<>>, <<"git">>} :
       Finish(addHandler(World, name, command, tag, 1, FALSE)) =>
         /\ name \in DOMAIN Loaded(aliasesFile')
         /\ Loaded(aliasesFile')[name] = command
         /\ SameElsewhere(Loaded(aliasesFile), Loaded(aliasesFile'), {name})
         /\ name \in DOMAIN Loaded(aliasesFile) =>
              Printed(out', "overwriting", name, Loaded(aliasesFile)[name])]_vars

\* C4: a non-dry-run remove of a name of the alias set leaves no entry and
\* no metadata record for it, and every other alias and record as before.
C4_RemoveDeletes ==
  [][\A name \in Names :
       (name \in DOMAIN Loaded(aliasesFile) /\ Finish(removeHandler(World, name, FALSE))) =>
         /\ name \notin DOMAIN Loaded(aliasesFile')
         /\ name \notin DOMAIN Records(metadataFile')
         /\ SameElsewhere(Loaded(aliasesFile), Loaded(aliasesFile'), {name})
         /\ SameElsewhere(Records(metadataFile), Records(metadataFile'), {name})]_vars

\* The invocation that ends in st reported not-found for name and changed
\* neither the alias mapping nor a metadata record.
NotFoundAndUnchanged(st, name) ==
  /\ Printed(st.out, "error:not-found", name, <<>>)
  /\ Loaded(st.af) = Loaded(aliasesFile)
  /\ Records(st.mf) = Records(metadataFile)

C6_RenameConflict ==
  [][\A oldName \in Names, newName \in Names :
       (/\ oldName \in DOMAIN Loaded(aliasesFile)
        /\ newName \in DOMAIN Loaded(aliasesFile)
        /\ Finish(renameHandler(World, oldName, newName, FALSE))) =>
         /\ Printed(out', "error:already-exists", newName, <<>>)
         /\ aliasesFile' = aliasesFile
         /\ metadataFile' = metadataFile]_vars

\* C7: after a non-dry-run rename with old present and new absent, new is
\* mapped to old's former command, old has no entry, the record of old (if
\* any) is under new and none under old, and the rest is as before.
C7_RenameCarries ==
  [][\A oldName \in Names, newName \in Names :
       (/\ oldName \in DOMAIN Loaded(aliasesFile)
        /\ newName \notin DOMAIN Loaded(aliasesFile)
        /\ Finish(renameHandler(World, oldName, newName, FALSE))) =>
         /\ newName \in DOMAIN Loaded(aliasesFile')
         /\ Loaded(aliasesFile')[newName] = Loaded(aliasesFile)[oldName]
         /\ oldName \notin DOMAIN Loaded(aliasesFile')
         /\ oldName \notin DOMAIN Records(metadataFile')
         /\ oldName \in DOMAIN Records(metadataFile) =>
              /\ newName \in DOMAIN Records(metadataFile')
              /\ Records(metadataFile')[newName] = Records(metadataFile)[oldName]
         /\ SameElsewhere(Loaded(aliasesFile), Loaded(aliasesFile'), {oldName, newName})
         /\ SameElsewhere(Records(metadataFile), Records(metadataFile'), {oldName, newName})]_vars

\* C8: every key of the metadata file is a name of the alias file's mapping.
C8_NoOrphanMetadata == DOMAIN Records(metadataFile) \subseteq DOMAIN Loaded(aliasesFile)

OnlyLegacyTag == [EmptyMeta EXCEPT !.tag = <<"git">>]

\* The invocation that ends in st left a record for name whose reported
\* tags include "git" and which has the field tags and no field tag.
Migrated(st, name) ==
  LET record == Records(st.mf)[name]
  IN  /\ name \in DOMAIN Records(st.mf)
      /\ \E i \in 1..Len(getAliasTags(record)) : getAliasTags(record)[i] = "git"
      /\ record.tag = <<>>
      /\ record.tags # <<>>

\* C9: when the record of an alias holds only the legacy field tag: "git",
\* a tag-add (zam tag --add, or "Add tags" of the menu, with at least one
\* tag) leaves a record whose reported tags include "git" and which has the
\* field tags and no field tag.  (In every reachable state, for every such
\* invocation.)
C9_TagAddMigrates ==
  \A name \in Names, tags \in TagLists :
    (/\ name \in DOMAIN Loaded(aliasesFile)
     /\ name \in DOMAIN Records(metadataFile)
     /\ Records(metadataFile)[name] = OnlyLegacyTag)
    => /\ Migrated(tagHandler(World, name, "add", tags, FALSE), name)
       /\ Migrated(interactiveEditTags(World, name, "add", TRUE, tags, "git", FALSE), name)

\* The legacy record of alias a was migrated by adding the tag Git.
C9_Witness ==
  /\ out = <<Msg("tags-updated", <<"a">>, <<"git">>)>>
  /\ Records(metadataFile)[<<"a">>] = [EmptyMeta EXCEPT !.tags = << <<"git">> >>]

\* The name an uncommented alias line of the startup file defines, as a
\* one-element set; empty for any other line.
AliasLineName(line) ==
  LET trimmed == Trim(line)
  IN  IF StartsWith(trimmed, AliasPrefix) /\ IndexOf(trimmed, "=") > Len(AliasPrefix)
      THEN {Trim(Substring(trimmed, Len(AliasPrefix), IndexOf(trimmed, "=")))}
      ELSE {}

\* C10: when the name of an alias line of the startup file is already in the
\* managed set, a non-dry-run import leaves the managed command of that name
\* as it was, leaves that line of the startup file as it was, and prints a
\* skip notice.
C10_ImportSkips ==
  [][Finish(runImport(World, FALSE)) =>
       \A i \in 1..Len(SplitLines(zshrcFile.content)) :
         \A name \in AliasLineName(SplitLines(zshrcFile.content)[i]) :
           name \in DOMAIN Loaded(aliasesFile) =>
             /\ name \in DOMAIN Loaded(aliasesFile')
             /\ Loaded(aliasesFile')[name] = Loaded(aliasesFile)[name]
             /\ SplitLines(zshrcFile'.content)[i] = SplitLines(zshrcFile.content)[i]
             /\ Printed(out', "skipping", name, <<>>)]_vars

\* C11: a non-dry-run import puts the name of every uncommented alias line
\* of the startup file that is not yet managed into the managed set and
\* replaces that line by itself prefixed with "# [Moved to zam] "; every
\* other line of the startup file stays as it was, at its position, and the
\* file keeps its number of lines.  (A name counts as managed from the
\* first line that defines it.)
C11_ImportMovesAndMarks ==
  [][(zshrcFile.exists /\ Finish(runImport(World, FALSE))) =>
       LET before == SplitLines(zshrcFile.content)
           after == SplitLines(zshrcFile'.content)
           fresh(i) == /\ AliasLineName(before[i]) # {}
                       /\ AliasLineName(before[i]) \cap DOMAIN Loaded(aliasesFile) = {}
                       /\ \A j \in 1..(i - 1) : AliasLineName(before[j]) # AliasLineName(before[i])
       IN  /\ Len(after) = Len(before)
           /\ \A i \in 1..Len(before) :
                IF fresh(i)
                THEN /\ AliasLineName(before[i]) \subseteq DOMAIN Loaded(aliasesFile')
                     /\ after[i] = MovedPrefix \o before[i]
                ELSE after[i] = before[i]]_vars

\* C12: add with the dry-run option leaves the alias file and the metadata
\* file as they were, and prints as preview the content that the same add
\* without the option writes.  (In every reachable state, for every add.)
C12_DryRunAddWritesNothing ==
  \A name \in Names, command \in Commands, tag \in {<<>>, <<"git">>} :
    LET dry == addHandler(World, name, command, tag, 1, TRUE)
        real == addHandler(World, name, command, tag, 1, FALSE)
    IN  /\ dry.af = aliasesFile
        /\ dry.mf = metadataFile
        /\ Printed(dry.out, "dry:write-aliases", real.af.content, <<>>)

\* A dry-run add has printed a preview that differs from the alias file,
\* and the name it would add has no metadata record.
C12_Witness ==
  /\ aliasesFile.exists
  /\ <<"b">> \notin DOMAIN Records(metadataFile)
  /\ \E i \in 1..Len(out) :
       /\ out[i].kind = "dry:write-aliases"
       /\ out[i].a # aliasesFile.content
       /\ <<"b">> \in DOMAIN ObjMap(parseAliases(out[i].a))

\* A step that is some invocation with the dry-run option
DryRunStep ==
  \/ \E name \in Names, command \in Commands :
       \/ Finish(addHandler(World, name, command, <<>>, 1, TRUE))
       \/ Finish(interactiveAdd(World, name, command, <<>>, 1, TRUE))
  \/ \E name \in Names :
       \/ Finish(removeHandler(World, name, TRUE))
       \/ Finish(editHandler(World, name, <<>>, 0, TRUE))
       \/ \E newName \in Names : Finish(renameHandler(World, name, newName, TRUE))
       \/ \E option \in TagOptions : Finish(tagHandler(World, name, option, <<"git">>, TRUE))
  \/ \E selected \in menuNames(World, TRUE) :
       \/ \E command \in Commands : Finish(interactiveEdit(World, selected, command, TRUE))
       \/ Finish(interactiveDelete(World, selected, TRUE, TRUE))
       \/ \E newName \in Names : Finish(interactiveRename(World, selected, newName, TRUE))
       \/ \E tagAction \in TagOptions :
            Finish(interactiveEditTags(World, selected, tagAction, TRUE, <<"git">>, "git", TRUE))
  \/ Finish(runImport(World, TRUE))
  \/ Finish(runBackup(World, TRUE))
  \/ \E file \in 0..Len(backups) : Finish(runRestore(World, file, TRUE))

\* C13: an invocation with the dry-run option writes, copies or appends to
\* no file: the alias file, the metadata file, the startup file, the
\* backups and the temporary directory are after it what they were before.
C13_DryRunChangesNoFile ==
  [][DryRunStep => UNCHANGED <<aliasesFile, metadataFile, zshrcFile, backups, tmpFiles>>]_vars

\* The last invocation reported a failure on the console.
ReportedFailure ==
  \E i \in 1..Len(out) :
    out[i].kind \in {"error:not-found", "error:already-exists", "error:backup-not-found",
                     "error:no-aliases-file", "error:zshrc-not-found", "error:editor"}

\* C14: an invocation that reports a failure ends with a non-zero exit
\* status, and only an invocation without failure ends with status zero.
C14_FailureExitsNonZero == ReportedFailure <=> exitCode # 0

\* A line parseAliases reads an entry from: trimmed, it starts with "alias "
\* and contains "=".
IsEntryLine(line) ==
  /\ StartsWith(Trim(line), AliasPrefix)
  /\ \E i \in 1..Len(Trim(line)) : Trim(line)[i] = "="

\* C15: parseAliases reads one entry from every line that, trimmed, starts
\* with "alias " and contains "=", and nothing from any other line: the
\* result is the result for the entry lines alone, and it is the empty map
\* when there is no entry line.
C15_ParseIgnoresOtherLines ==
  aliasesFile.exists =>
    LET lines == SplitLines(aliasesFile.content)
        entryLines == SelectSeq(lines, IsEntryLine)
        parsed == parseAliases(aliasesFile.content)
    IN  /\ parsed = parseAliases(JoinLines(entryLines))
        /\ Len(entryLines) = 0 => parsed = <<>>
        /\ \A i \in 1..Len(lines) :
             Len(parseAliases(lines[i])) = IF IsEntryLine(lines[i]) THEN 1 ELSE 0
        /\ ObjKeySet(parsed) =
             UNION {ObjKeySet(parseAliases(entryLines[i])) : i \in 1..Len(entryLines)}

\* A file with a comment, a line without "=" and an alias line has been
\* read: the map holds the one alias.
C15_Witness ==
  /\ aliasesFile.exists
  /\ \E i, j \in 1..Len(SplitLines(aliasesFile.content)) :
       /\ StartsWith(SplitLines(aliasesFile.content)[i], <<"#">>)
       /\ SplitLines(aliasesFile.content)[j] =
            <<"a", "l", "i", "a", "s", " ", "n", "o", "e", "q">>
  /\ mem = << <<<<"b">>, <<"y">>>> >>
  /\ mem = parseAliases(aliasesFile.content)

\* The tags of a name as its metadata record gives them: the tags array
\* when it has elements, else the legacy tag alone, else none; none for a
\* name without record.
EffectiveTags(records, name) ==
  IF name \notin DOMAIN records THEN <<>>
  ELSE IF records[name].tags # <<>> /\ records[name].tags[1] # <<>> THEN records[name].tags[1]
  ELSE IF records[name].tag # <<>> THEN records[name].tag
  ELSE <<>>

\* The names zam list --tag T prints
Listed(T) ==
  LET lines == listHandler(World, T, FALSE).out
  IN  {lines[i].a : i \in {j \in 1..Len(lines) : lines[j].kind = "list-entry"}}

\* C16: list --tag T prints exactly the managed aliases whose effective tag
\* list holds T, case ignored; an alias without metadata record is never
\* printed under a tag filter.
C16_ListTagFilter ==
  \A T \in TagFilters \ {""} :
    Listed(T) =
      {name \in DOMAIN Loaded(aliasesFile) :
         \E i \in 1..Len(EffectiveTags(Records(metadataFile), name)) :
           ToLowerCase(EffectiveTags(Records(metadataFile), name)[i]) = ToLowerCase(T)}

\* list --tag git has printed a, whose only tag is the legacy one, and not
\* b, which is managed and has the tag work.
C16_Witness ==
  /\ \E i \in 1..Len(out) : out[i] = Msg("list-header", "git", <<>>)
  /\ \E i \in 1..Len(out) : out[i].kind = "list-entry" /\ out[i].a = <<"a">>
  /\ ~\E i \in 1..Len(out) : out[i].kind = "list-entry" /\ out[i].a = <<"b">>
  /\ Records(metadataFile)[<<"a">>].tags = <<>>
  /\ Records(metadataFile)[<<"a">>].tag = <<"git">>
  /\ <<"b">> \in DOMAIN Loaded(aliasesFile)
  /\ EffectiveTags(Records(metadataFile), <<"b">>) = <<"work">>

\* C17: when the startup file holds the line "source <alias file>", an
\* invocation appends nothing to the startup file.
C17_LinkedSetupAppendsNothing ==
  [][(zshrcFile.exists /\ Includes(zshrcFile.content, SourceLine)) =>
       zshrcFile' = zshrcFile]_vars

\* The canonical form of the alias file: the header line, then the lines
\* alias <name>='<escaped command>' of its aliases in ascending order of
\* name, one line per alias, and one trailing newline.
Canonical(content) ==
  LET lines == SplitLines(content)
      parsed == parseAliases(content)
      n == Len(parsed)
  IN  /\ Len(lines) = n + 2
      /\ lines[1] = ManagedHeader
      /\ lines[n + 2] = <<>>
      /\ \A i \in 1..n : IsAliasLineOf(lines[i + 1], parsed[i][1], parsed[i][2])
      /\ \A i \in 1..(n - 1) : StrLess(parsed[i][1], parsed[i + 1][1])
      /\ content = SerializeAliases(parsed)

\* A step that is an invocation which writes the alias file
WritesAliasFile ==
  \/ \E name \in Names :
       \/ Finish(addHandler(World, name, <<"x">>, <<>>, 1, FALSE))
       \/ Finish(removeHandler(World, name, FALSE))
       \/ \E newName \in Names : Finish(renameHandler(World, name, newName, FALSE))
       \/ \E edited \in EditedTexts, code \in {0, 1} :
            Finish(editHandler(World, name, edited, code, FALSE))
  \/ Finish(runImport(World, FALSE))
  \/ \E file \in 1..Len(backups) : Finish(runRestore(World, file, FALSE))

\* C18: after every invocation that changes the alias file (first-run
\* creation, add, remove, rename, edit, import, restore), the file is in
\* canonical form and equals the serialization of its own parsed content.
C18_CanonicalAfterMutation ==
  [][(WritesAliasFile /\ aliasesFile' # aliasesFile) =>
       (aliasesFile'.exists /\ Canonical(aliasesFile'.content))]_vars

\* A step of an operation that writes tags: add with tags, tag with --set,
\* --add, --remove or --clear, and the tag editor of the interactive mode
WritesTags ==
  \/ \E name \in Names, command \in Commands, tags \in TagLists :
       Finish(addHandler(World, name, command, tags, 1, FALSE))
  \/ \E name \in Names, tags \in TagLists :
       Finish(interactiveAdd(World, name, <<"x">>, tags, 1, FALSE))
  \/ \E name \in Names, option \in TagOptions \ {"show"}, tags \in TagLists \cup {<<>>} :
       Finish(tagHandler(World, name, option, tags, FALSE))
  \/ InteractiveEditTags(TagLists)

\* C19: after an operation that writes tags, every metadata record the
\* operation stored does not hold the legacy tag field.
C19_TagWriteDropsLegacy ==
  [][WritesTags =>
       \A name \in DOMAIN Records(metadataFile') :
         (Records(metadataFile') # Records(metadataFile)
            /\ MapGet(Records(metadataFile), name) # Records(metadataFile')[name])
         => Records(metadataFile')[name].tag = <<>>]_vars

\* C20: a metadata record that has a created value keeps it for as long as
\* the record exists, whatever operation runs on its name.
C20_CreatedWriteOnce ==
  [][\A name \in (DOMAIN Records(metadataFile)) \cap (DOMAIN Records(metadataFile')) :
       Records(metadataFile)[name].created # <<>>
       => Records(metadataFile')[name].created = Records(metadataFile)[name].created]_vars

\* C21: an interactive session has ended only by the Exit choice or an
\* interrupt; a failure of a menu action leaves the session at its menu.
C21_SessionSurvivesFailures ==
  session = "ended" => Printed(out, "bye", <<>>, <<>>)

\* C22: an invocation that ends in a reported failure has written no file,
\* the files of first-run setup included.
C22_NoWriteOnFailure ==
  [][ReportedFailure' => UNCHANGED <<aliasesFile, metadataFile, zshrcFile, backups>>]_vars

\* Tag lists given to --add and to the "Add tags" prompt
GivenTags ==
  TagLists \cup {<<"work">>, <<"work", "git">>, <<"git", "work", "Git">>, <<"work", "work">>}

\* s restricted to the positions of keep, in their order
AtPositions(s, keep) ==
  [i \in 1..Cardinality(keep) |->
     s[CHOOSE j \in keep : Cardinality({k \in keep : k < j}) = i - 1]]

\* existing, followed by each given tag that equals, ignoring case, neither
\* an existing tag nor an earlier given tag
UnionIgnoringCase(existing, given) ==
  existing \o AtPositions(given,
    {j \in 1..Len(given) :
       /\ \A i \in 1..Len(existing) : ToLowerCase(existing[i]) # ToLowerCase(given[j])
       /\ \A k \in 1..(j - 1) : ToLowerCase(given[k]) # ToLowerCase(given[j])})

\* C23: for an alias the handler finds, zam tag --add and "Add tags" of the
\* menu store the existing tags, unchanged, followed by each given tag that
\* equals, ignoring case, no tag before it, in the order given.  (In every
\* reachable state, for every given list.)
C23_TagAddIsUnion ==
  \A name \in Names, given \in GivenTags :
    LET existing == getAliasTags(MapGet(Records(metadataFile), name))
        cli == tagHandler(World, name, "add", given, FALSE)
        menu == interactiveEditTags(World, name, "add", TRUE, given, "", FALSE)
    IN  (name \in DOMAIN Loaded(aliasesFile) /\ Loaded(aliasesFile)[name] # <<>>)
        => /\ Records(cli.mf)[name].tags = <<UnionIgnoringCase(existing, given)>>
           /\ Records(menu.mf)[name].tags = <<UnionIgnoringCase(existing, given)>>
           /\ Printed(cli.out, "tags-updated", name, UnionIgnoringCase(existing, given))

\* A tag-add left alias a with the tags Git, work: work was added to Git, or
\* git or Git was added to Git, work and changed nothing.
C23_Witness ==
  /\ out = <<Msg("tags-updated", <<"a">>, <<"Git", "work">>)>>
  /\ Records(metadataFile)[<<"a">>].tags = << <<"Git", "work">> >>

\* existing without every tag that equals, ignoring case, a tag of toRemove
DifferenceIgnoringCase(existing, toRemove) ==
  AtPositions(existing,
    {j \in 1..Len(existing) :
       \A i \in 1..Len(toRemove) : ToLowerCase(toRemove[i]) # ToLowerCase(existing[j])})

\* C24: for an alias the handler finds, zam tag --remove and "Remove tags"
\* of the menu leave the existing tags minus every tag that equals, ignoring
\* case, a removed tag, in their order; with none left the alias reports no
\* tags.
C24_TagRemoveIsDifference ==
  \A name \in Names :
    LET existing == getAliasTags(MapGet(Records(metadataFile), name))
        cli(toRemove) == tagHandler(World, name, "remove", toRemove, FALSE)
        menu(tag) == interactiveEditTags(World, name, "remove", FALSE, <<>>, tag, FALSE)
    IN  (name \in DOMAIN Loaded(aliasesFile) /\ Loaded(aliasesFile)[name] # <<>>)
        => /\ \A toRemove \in GivenTags :
                getAliasTags(Records(cli(toRemove).mf)[name])
                  = DifferenceIgnoringCase(existing, toRemove)
           /\ \A i \in 1..Len(existing) :
                getAliasTags(Records(menu(existing[i]).mf)[name])
                  = DifferenceIgnoringCase(existing, <<existing[i]>>)

\* C25: no stored tags list holds two entries that are equal ignoring case.
C25_NoCaseDuplicateTags ==
  \A name \in DOMAIN Records(metadataFile) :
    LET record == Records(metadataFile)[name]
    IN  record.tags # <<>>
        => \A i, j \in 1..Len(record.tags[1]) :
             ToLowerCase(record.tags[1][i]) = ToLowerCase(record.tags[1][j]) => i = j

\* The processes that have saved, and the one that saved last
Savers == {p \in Writers : writers[p].savedAt > 0}

LastSaver == CHOOSE p \in Savers : \A q \in Savers : writers[q].savedAt <= writers[p].savedAt

\* C26: once a process has saved, and so after both have, the alias file is
\* the serialization of the mapping held by the process that saved last,
\* and no failure was reported.
C26_LastWriterWins ==
  Savers # {}
  => /\ aliasesFile = TextFile(SerializeAliases(writers[LastSaver].aliases))
     /\ ~ReportedFailure

\* Both processes have saved; the first set a, the second one had loaded
\* before that save and set b: the file holds b and not a.
C26_Witness ==
  /\ Savers = Writers
  /\ ObjHas(writers[CHOOSE p \in Writers : writers[p].savedAt = 1].aliases, <<"a">>)
  /\ DOMAIN Loaded(aliasesFile) = {<<"b">>}

\* C27: a backup holds the mapping the alias file held when it was taken,
\* no later operation changes a stored backup, and a restore of a backup
\* makes loading the alias file return the mapping the backup holds.
C27_BackupRestoreRoundTrip ==
  [][/\ Finish(runBackup(World, FALSE)) /\ Len(backups') > Len(backups)
        => Loaded(TextFile(backups'[Len(backups')])) = Loaded(aliasesFile)
     /\ \A file \in 1..Len(backups) :
          /\ Len(backups') >= file /\ backups'[file] = backups[file]
          /\ Finish(runRestore(World, file, FALSE))
             => Loaded(aliasesFile') = Loaded(TextFile(backups[file]))]_vars

\* A backup was restored after b had been added since it was taken: b has
\* a metadata record and is no longer in the mapping.
C27_Witness ==
  /\ out = <<Msg("restored", <<>>, <<>>)>>
  /\ Len(backups) > 0
  /\ Loaded(aliasesFile) = Loaded(TextFile(backups[1]))
  /\ <<"b">> \in DOMAIN Records(metadataFile)
  /\ <<"b">> \notin DOMAIN Loaded(aliasesFile)

\* C28: after a non-dry-run import on a startup file that lacked the source
\* instruction or the wrapper, the startup file holds the source
\* instruction and the wrapper that setup appended during that invocation.
C28_ImportKeepsSetup ==
  [][(/\ zshrcFile.exists
      /\ ~(Includes(zshrcFile.content, SourceLine)
           /\ Includes(zshrcFile.content, SHELL_WRAPPER_MARKER))
      /\ Finish(runImport(World, FALSE)))
     => /\ Includes(zshrcFile'.content, SourceInstruction)
        /\ Includes(zshrcFile'.content, SHELL_WRAPPER)]_vars

\* C29: a name the loaded mapping maps to the empty command is present:
\* remove deletes it and does not report not-found, a rename of it to an
\* absent name is carried out, and a rename of another alias to it is
\* refused as already existing.
C29_PresenceIgnoresValue ==
  \A name \in Names :
    (name \in DOMAIN Loaded(aliasesFile) /\ Loaded(aliasesFile)[name] = <<>>)
    => /\ ~Printed(removeHandler(World, name, FALSE).out, "error:not-found", name, <<>>)
       /\ name \notin DOMAIN Loaded(removeHandler(World, name, FALSE).af)
       /\ \A other \in Names \ {name} :
            IF other \in DOMAIN Loaded(aliasesFile)
            THEN Printed(renameHandler(World, other, name, FALSE).out,
                         "error:already-exists", name, <<>>)
            ELSE Printed(renameHandler(World, name, other, FALSE).out,
                         "renamed", name, other)

\* C30: for every line an import moves, the command stored in the alias
\* file is the command parseAliases reads from that line.
C30_ImportStoresParsedCommand ==
  [][(zshrcFile.exists /\ Finish(runImport(World, FALSE)))
     => \A name \in Names :
          Printed(out', "importing", name, <<>>)
          => /\ name \in DOMAIN Loaded(aliasesFile')
             /\ Loaded(aliasesFile')[name] = Loaded(zshrcFile)[name]]_vars

====
